---- MODULE Spec2Model ----
(***************************************************************************)
(* A model of ms_todo_migrate.py: the paged fetch (fetch_all), the title   *)
(* sanitization (safe_filename), the file writer (write_task_file) and the *)
(* driver loop (main).                                                     *)
(*                                                                         *)
(* Strings that the code inspects character by character (titles, file     *)
(* names, list names) are sequences of one-character strings.  JSON values *)
(* are records tagged by their type in field t.                            *)
(***************************************************************************)
EXTENDS Integers, Sequences, FiniteSets, TLC

VARIABLES
    \* ---- fetch_all ----
    server,       \* the remote collection: page index -> JSON body
    url,          \* fetch_all's argument url
    next_link,    \* local next_link
    items,        \* local items
    requests,     \* the URLs passed to requests.get, in order
    resp,         \* the last response: [status, body]
    fpc,          \* "loop" | "returned" | "raised"
    ferr,         \* the exception fetch_all raised, or "none"
    \* ---- safe_filename ----
    title,        \* the argument title
    once,         \* safe_filename(title)
    twice,        \* safe_filename(safe_filename(title))
    spc,          \* "call" | "done"
    \* ---- write_task_file and main ----
    fs,           \* the output tree: path -> file text (a token sequence)
    fs0,          \* the output tree before the last write_task_file call
    call,         \* the last write_task_file call: its arguments and result
    nwrites,      \* number of write_task_file calls made so far
    pc,           \* main's position
    skip_completed,
    source_lists, \* main's source_lists
    li,           \* index of the list being processed
    tasks,        \* the tasks of the current list
    ti,           \* index of the task being processed
    migrated_count,
    total_migrated,
    exit_code,    \* main's return value; 1 for an uncaught exception
    err           \* the last exception raised in main: [type, at]

fetchVars == <<server, url, next_link, items, requests, resp, fpc, ferr>>
sanVars   == <<title, once, twice, spc>>
fileVars  == <<fs, fs0, call, nwrites>>
mainVars  == <<pc, skip_completed, source_lists, li, tasks, ti,
               migrated_count, total_migrated, exit_code, err>>
vars      == <<fetchVars, sanVars, fileVars, mainVars>>

----------------------------------------------------------------------------
(* Bounds of the model *)

MaxPages == 3       \* pages the remote collection holds
MaxRequests == 4    \* requests one fetch_all run may issue in the model

----------------------------------------------------------------------------
(* JSON values and Python truthiness *)

JNull == [t |-> "null"]
JAbsent == [t |-> "absent"]          \* the key is not in the object
JStr(s) == [t |-> "str", v |-> s]
JList(s) == [t |-> "list", v |-> s]

\* dict.get(key, default) on a JSON object held as a record of fields
DictGet(d, key, default) == IF d[key].t = "absent" THEN default ELSE d[key]

\* bool(x) for the values a cursor can be
Truthy(x) == x.t = "str" /\ x.v # ""

IsList(x) == x.t = "list"

----------------------------------------------------------------------------
(* fetch_all *)

UrlOf(i) == "u" \o ToString(i)
KnownUrl(u) == \E i \in 1..MaxPages : UrlOf(i) = u
PageIndex(u) == CHOOSE i \in 1..MaxPages : UrlOf(i) = u

\* A page's value field: missing, not an array, or an array of items
PageValues == {JAbsent, JNull, JList(<<"a", "b">>), JList(<<"c">>)}
\* A page's cursor: none (absent or null), the empty string, the next page, or back to the first
CursorKinds == {"absent", "null", "empty", "next", "first"}
CursorOf(i, kind) ==
    CASE kind = "absent" -> JAbsent
      [] kind = "null" -> JNull
      [] kind = "empty" -> JStr("")
      [] kind = "next" -> JStr(UrlOf(i + 1))
      [] kind = "first" -> JStr(UrlOf(1))
CursorKey == "@odata.nextLink"
Body(value, cursor) == [k \in {"value", CursorKey} |-> IF k = "value" THEN value ELSE cursor]
Servers == {[i \in 1..MaxPages |-> Body(g[i].value, CursorOf(i, g[i].cur))] :
               g \in [1..MaxPages -> [value : PageValues, cur : CursorKinds]]}
NoResp == [status |-> "none", body |-> Body(JAbsent, JAbsent)]

\* line 41-43: value = body.get("value", []); if isinstance(value, list): items.extend(value)
ExtendItemsAppend(its, body) ==
    LET value == DictGet(body, "value", JList(<<>>))
    IN  IF IsList(value) THEN its \o value.v ELSE Append(its, value)

ExtendItemsPrepend(its, body) ==
    LET value == DictGet(body, "value", JList(<<>>))
    IN  IF IsList(value) THEN value.v \o its ELSE its

ExtendItems(its, body) ==
    LET value == DictGet(body, "value", JList(<<>>))
    IN  IF IsList(value) THEN its \o value.v ELSE its

\* line 45: next_link = body.get("@odata.nextLink")
NextLinkOf(body) == DictGet(body, CursorKey, JNull)

InitFetchVars ==
    /\ server \in Servers
    /\ url \in {UrlOf(1), UrlOf(2)}
    /\ next_link = JStr(url)
    /\ items = <<>>
    /\ requests = <<>>
    /\ resp = NoResp
    /\ fpc = "loop"
    /\ ferr = "none"

IdleFetchVars ==
    /\ server = [i \in 1..MaxPages |-> Body(JAbsent, JAbsent)]
    /\ url = ""
    /\ next_link = JNull
    /\ items = <<>>
    /\ requests = <<>>
    /\ resp = NoResp
    /\ fpc = "returned"
    /\ ferr = "none"

\* One iteration of the while loop whose request succeeds (lines 37-45).
FetchPage ==
    /\ fpc = "loop"
    /\ Truthy(next_link)
    /\ Len(requests) < MaxRequests
    /\ KnownUrl(next_link.v)
    /\ LET body == server[PageIndex(next_link.v)]
       IN  /\ requests' = Append(requests, next_link.v)
           /\ resp' = [status |-> "ok", body |-> body]
           /\ items' = ExtendItems(items, body)
           /\ next_link' = NextLinkOf(body)
    /\ UNCHANGED <<server, url, fpc, ferr>>

\* The request is answered with a non-success status: raise_for_status raises
\* requests.HTTPError (line 39).  A URL the server does not know is answered so.
FetchHTTPError ==
    /\ fpc = "loop"
    /\ Truthy(next_link)
    /\ Len(requests) < MaxRequests
    /\ requests' = Append(requests, next_link.v)
    /\ resp' = [status |-> "http_error", body |-> NoResp.body]
    /\ fpc' = "raised"
    /\ ferr' = "HTTPError"
    /\ UNCHANGED <<server, url, next_link, items>>

\* The request cannot reach the server: requests.get raises
\* requests.ConnectionError (line 38).
FetchConnectionError ==
    /\ fpc = "loop"
    /\ Truthy(next_link)
    /\ Len(requests) < MaxRequests
    /\ KnownUrl(next_link.v)
    /\ requests' = Append(requests, next_link.v)
    /\ resp' = [status |-> "conn_error", body |-> NoResp.body]
    /\ fpc' = "raised"
    /\ ferr' = "ConnectionError"
    /\ UNCHANGED <<server, url, next_link, items>>

\* The loop condition is false: return items (lines 37, 46).
FetchReturn ==
    /\ fpc = "loop"
    /\ ~Truthy(next_link)
    /\ fpc' = "returned"
    /\ UNCHANGED <<server, url, next_link, items, requests, resp, ferr>>

----------------------------------------------------------------------------
(* safe_filename *)

MaxNameLen == 150   \* s[:150]
MaxTail == 3        \* length of the varied part of a generated title

SepChars == {":", "/", "\\", " ", "\t", "\n", "\r"}   \* the class [:/\\\s]
StripChars == {"_", "\n", "\r"}                       \* strip("_\n\r")
Untitled == <<"u", "n", "t", "i", "t", "l", "e", "d">>

\* re.sub(r"[:/\\\s]+", "_", title): every maximal run becomes one underscore.
\* A character is kept unless it continues a run; a run's first character
\* becomes the underscore.
CollapseSeps(s) ==
    LET starts == SelectSeq([i \in 1..Len(s) |-> i],
                            LAMBDA i : s[i] \notin SepChars \/ i = 1 \/ s[i - 1] \notin SepChars)
    IN  [j \in 1..Len(starts) |-> IF s[starts[j]] \in SepChars THEN "_" ELSE s[starts[j]]]

\* str.strip(chars): from the first to the last character that is not in chars
Strip(s) ==
    LET keep == {i \in 1..Len(s) : s[i] \notin StripChars}
    IN  IF keep = {} THEN <<>>
        ELSE SubSeq(s, CHOOSE i \in keep : \A j \in keep : i <= j,
                       CHOOSE i \in keep : \A j \in keep : i >= j)

Truncate(s) == IF Len(s) > MaxNameLen THEN SubSeq(s, 1, MaxNameLen) ELSE s

safe_filename(t) ==
    LET s1 == Strip(CollapseSeps(t))
        s2 == IF s1 = <<>> THEN Untitled ELSE s1
    IN  Truncate(s2)

\* Generated titles: a run of k letters followed by a short varied tail, so that
\* the tail falls on either side of the cut at MaxNameLen.
TitleChars == {"a", "_", " ", ":", "\n"}
Pad(k) == [i \in 1..k |-> "a"]
PadLens == {0} \cup ((MaxNameLen - MaxTail)..MaxNameLen)
Tails == UNION {[1..n -> TitleChars] : n \in 0..MaxTail}
Titles == {Pad(k) \o tl : k \in PadLens, tl \in Tails}

InitSanVars ==
    /\ title \in Titles
    /\ once = <<>>
    /\ twice = <<>>
    /\ spc = "call"

IdleSanVars ==
    /\ title = <<>>
    /\ once = <<>>
    /\ twice = <<>>
    /\ spc = "done"

\* safe_filename applied to title, and again to its own result
Sanitize ==
    /\ spc = "call"
    /\ once' = safe_filename(title)
    /\ twice' = safe_filename(safe_filename(title))
    /\ spc' = "done"
    /\ UNCHANGED title

----------------------------------------------------------------------------
(* write_task_file.  A dict is a sequence of entries [k, v] in insertion     *)
(* order.  A file's text is a sequence of tokens; NL is the line break.      *)

MaxWrites == 3      \* write_task_file calls in one behaviour of SpecWrite

NL == "\n"
Delim == "---"
Ext == <<".", "m", "d">>
ChecklistKey == "_checklistItems"
FenceOpen == "'''json"     \* the opening line of the fenced code block (three backquotes, json)
FenceClose == "'''"        \* its closing line (three backquotes)

JBool(b) == [t |-> "bool", v |-> b]
JDict(c) == [t |-> "dict", content |-> c]    \* a body object and its content
JODict(c) == [t |-> "odict", content |-> c]  \* a dict subclass yaml.safe_dump has no representer for

HasKey(d, key) == \E i \in 1..Len(d) : d[i].k = key
GetKey(d, key) == IF HasKey(d, key)
                  THEN d[CHOOSE i \in 1..Len(d) : d[i].k = key].v
                  ELSE JNull
PopKey(d, key) == SelectSeq(d, LAMBDA e : e.k # key)

DigitChars == <<"0", "1", "2", "3", "4", "5", "6", "7", "8", "9">>
RECURSIVE Digits(_)
Digits(n) == IF n < 10 THEN <<DigitChars[n + 1]>>
             ELSE Digits(n \div 10) \o <<DigitChars[(n % 10) + 1]>>

\* os.path.join(folder, filename)
Path(folder, filename) == <<folder, filename>>
PathExists(f, path) == path \in DOMAIN f

\* lines 84-92: the first candidate is base.md, then base_1.md, base_2.md, ...
PickPathKeepFirst(f, folder, base, counter, path) == path

RECURSIVE PickPathLateSuffix(_, _, _, _, _)
PickPathLateSuffix(f, folder, base, counter, path) ==
    IF PathExists(f, path)
    THEN PickPathLateSuffix(f, folder, base, counter + 1,
                            Path(folder, base \o <<"_">> \o Digits(counter + 1) \o Ext))
    ELSE path

RECURSIVE PickPath(_, _, _, _, _)
PickPath(f, folder, base, counter, path) ==
    IF PathExists(f, path)
    THEN PickPath(f, folder, base, counter + 1,
                  Path(folder, base \o <<"_">> \o Digits(counter) \o Ext))
    ELSE path

\* lines 100-102 and 107-109: a copy of task_json without the checklist channel
FrontmatterDataKeepAll(task_json) == task_json

FrontmatterData(task_json) == PopKey(task_json, ChecklistKey)

\* yaml.safe_dump raises RepresenterError on a value of a type it has no representer for
YamlSafe(d) == \A i \in 1..Len(d) : d[i].v.t # "odict"

RECURSIVE YamlDump(_)
YamlDump(d) == IF d = <<>> THEN <<>> ELSE <<Head(d).k, NL>> \o YamlDump(Tail(d))

\* yaml.safe_dump(..., sort_keys=False): one "key: value" line per entry, each ended by a line break
YamlStr(d) == IF d = <<>> THEN <<"{}", NL>> ELSE YamlDump(d)

RECURSIVE JsonEntries(_)
JsonEntries(d) ==
    IF Len(d) = 1 THEN <<Head(d).k>>
    ELSE <<Head(d).k, ",", NL>> \o JsonEntries(Tail(d))

\* json.dumps(obj, indent=2): "{", one line per entry, "}" and no final line break
JsonDumps(d) == IF d = <<>> THEN <<"{}">> ELSE <<"{", NL>> \o JsonEntries(d) \o <<NL, "}">>

\* lines 98-110
MetadataStr(task_json) ==
    IF YamlSafe(FrontmatterData(task_json))
    THEN YamlStr(FrontmatterData(task_json))
    ELSE JsonDumps(FrontmatterData(task_json))

\* line 129: esc
RECURSIVE Esc(_)
Esc(s) == IF s = <<>> THEN <<>>
          ELSE (IF Head(s) = "|" THEN <<"\\|">> ELSE <<Head(s)>>) \o Esc(Tail(s))

RECURSIVE ChecklistRows(_)
ChecklistRows(its) ==
    IF its = <<>> THEN <<>>
    ELSE <<"| ", IF Head(its).isChecked THEN "done" ELSE "to do", " | ">>
         \o Esc(Head(its).displayName) \o <<" |", NL>> \o ChecklistRows(Tail(its))

\* lines 118-140
SubtasksText(task_json) ==
    LET original_items == GetKey(task_json, ChecklistKey)
    IN  IF original_items.t = "list" /\ Len(original_items.v) > 0
        THEN <<NL, "## Subtasks", NL, NL, "| Status | Item |", NL, "| --- | --- |", NL>>
             \o ChecklistRows(original_items.v) \o <<NL>>
        ELSE <<>>

\* lines 143-158
BodyText(task_json) ==
    LET b == GetKey(task_json, "body")
        body == IF b.t \in {"dict", "odict"} THEN b.content ELSE <<>>
    IN  IF body # <<>>
        THEN body \o (IF body[Len(body)] = NL THEN <<>> ELSE <<NL>>)
        ELSE <<FenceOpen, NL>> \o JsonDumps(task_json) \o <<NL, FenceClose, NL>>

\* lines 94-158: everything written to the file
RenderText(task_json) ==
    <<Delim, NL>> \o MetadataStr(task_json) \o <<Delim, NL, NL>>
    \o SubtasksText(task_json) \o BodyText(task_json)

\* lines 82-159 when no filesystem call fails: the path chosen and the tree afterwards
write_task_file(f, folder, filename_base, task_json) ==
    LET path == PickPath(f, folder, filename_base, 1, Path(folder, filename_base \o Ext))
    IN  [path |-> path, fs |-> (path :> RenderText(task_json)) @@ f]

----------------------------------------------------------------------------
(* The inputs of write_task_file and main *)

MaxLists == 2       \* lists the source account holds
MaxTasks == 1       \* tasks one list holds

ListL == <<"L">>
ListM == <<"M">>
TitleT == <<"T">>

\* line 225: re.sub(r"[\s/]+", "", display_name)
CleanListName(display_name) ==
    SelectSeq(display_name, LAMBDA c : c \notin {" ", "\t", "\n", "\r", "/"})

LowerStr(s) == CASE s = "High" -> "high" [] s = "HIGH" -> "high" [] OTHER -> s

\* lines 162-176
minimal_task_repr(task) ==
    LET importance == LowerStr(IF task.importance.t = "str" THEN task.importance.v ELSE "")
    IN  << [k |-> "title", v |-> task.title],
           [k |-> "is_starred", v |-> JBool(importance = "high")],
           [k |-> "createdDateTime", v |-> task.createdDateTime],
           [k |-> "dueDateTime", v |-> JNull],
           [k |-> "body", v |-> task.body],
           [k |-> "completedDateTime", v |-> JNull],
           [k |-> "reminderDateTime", v |-> JNull] >>

\* lines 244-246: the projection plus the checklist items under the internal key
Payload(task) ==
    Append(minimal_task_repr(task), [k |-> ChecklistKey, v |-> task.checklistItems])

\* line 240: title = task.get("title") or "untitled"
TitleOf(task) == IF task.title.t = "str" /\ task.title.v # <<>> THEN task.title.v ELSE Untitled

\* line 241: skip_completed and status == "completed"
ShouldSkipIgnoringFlag(skip, task) == task.status = JStr("completed")

ShouldSkip(skip, task) == skip /\ task.status = JStr("completed")

Task(ttl, status, body, checklist) ==
    [title |-> ttl, importance |-> JStr("High"), status |-> status,
     createdDateTime |-> JStr("2024-01-01T00:00:00Z"),
     body |-> body, checklistItems |-> checklist]

OneItem == JList(<< [displayName |-> <<"B", "|", "C">>, isChecked |-> FALSE] >>)
Note == <<"note">>
NoteLine == <<"note", NL>>

\* The records write_task_file is called with: with and without a body, with and
\* without checklist items, with and without a value yaml.safe_dump rejects.
\* Three titles in one folder (two sanitize to the same name, the third is the
\* first suffixed name of the others) and one of them in a second folder.
WriteTargets == { [folder |-> ListL, title |-> TitleT],
                  [folder |-> ListL, title |-> <<"T", " ">>],
                  [folder |-> ListL, title |-> <<"T", "_", "1">>],
                  [folder |-> ListM, title |-> TitleT] }
WriteVariants ==
    { [status |-> JStr("notStarted"), body |-> JDict(Note), checklist |-> JNull],
      [status |-> JStr("notStarted"), body |-> JNull, checklist |-> OneItem],
      [status |-> JStr("notStarted"), body |-> JODict(NoteLine), checklist |-> OneItem],
      [status |-> JStr("notStarted"), body |-> JODict(<<>>), checklist |-> JNull] }
WriteTask(t, w) == Task(JStr(t), w.status, w.body, w.checklist)

OldText == <<"old", NL>>
OldFiles == {Path(ListL, TitleT \o Ext), Path(ListL, TitleT \o <<"_", "1">> \o Ext)}
EmptyTree == [p \in {} |-> OldText]
InitialTrees == {[p \in ps |-> OldText] : ps \in SUBSET OldFiles}

\* The tasks and lists the remote account may hold
MainTasks ==
    { Task(JStr(TitleT), JStr("completed"), JDict(Note), JNull),
      Task(JStr(<<"T", " ">>), JStr("notStarted"), JNull, OneItem),
      Task(JNull, JNull, JDict(NoteLine), JNull) }
MainLists == { [displayName |-> ListL, id |-> "1"],
               [displayName |-> <<"L", " ">>, id |-> "2"] }
SeqsUpTo(S, n) == UNION {[1..m -> S] : m \in 0..n}

NoCall == [folder |-> <<>>, base |-> <<>>, task_json |-> <<>>, path |-> <<>>, result |-> "none"]
NoErr == [type |-> "none", at |-> "none"]

InitFileVars ==
    /\ fs \in InitialTrees
    /\ fs0 = fs
    /\ call = NoCall
    /\ nwrites = 0

\* The output folder main starts with: empty, or holding files of an earlier run
InitMainFileVars ==
    /\ fs \in {EmptyTree, [p \in OldFiles |-> OldText]}
    /\ fs0 = fs
    /\ call = NoCall
    /\ nwrites = 0

IdleFileVars ==
    /\ fs = EmptyTree
    /\ fs0 = fs
    /\ call = NoCall
    /\ nwrites = 0

IdleMainVars ==
    /\ pc = "idle"
    /\ skip_completed = FALSE
    /\ source_lists = <<>>
    /\ li = 0
    /\ tasks = <<>>
    /\ ti = 0
    /\ migrated_count = 0
    /\ total_migrated = 0
    /\ exit_code = -1
    /\ err = NoErr

\* lines 211, 218: main after the token was validated
InitMainVars ==
    /\ pc = "fetch_lists"
    /\ skip_completed \in BOOLEAN
    /\ source_lists = <<>>
    /\ li = 0
    /\ tasks = <<>>
    /\ ti = 0
    /\ migrated_count = 0
    /\ total_migrated = 0
    /\ exit_code = -1
    /\ err = NoErr

----------------------------------------------------------------------------
(* write_task_file called on its own *)

\* A call that returns (lines 82-159)
WriteCall ==
    /\ nwrites < MaxWrites
    /\ \E tg \in WriteTargets, w \in WriteVariants :
          LET task == WriteTask(tg.title, w)
              base == safe_filename(TitleOf(task))
              r == write_task_file(fs, tg.folder, base, Payload(task))
          IN  /\ fs' = r.fs
              /\ fs0' = fs
              /\ call' = [folder |-> tg.folder, base |-> base, task_json |-> Payload(task),
                          path |-> r.path, result |-> "ok"]
    /\ nwrites' = nwrites + 1

\* os.makedirs (line 83) or open (line 94) raises OSError: nothing is written
WriteOSError ==
    /\ nwrites < MaxWrites
    /\ \E tg \in WriteTargets :
          /\ call' = [folder |-> tg.folder, base |-> safe_filename(tg.title),
                      task_json |-> <<>>, path |-> <<>>, result |-> "OSError"]
    /\ fs' = fs
    /\ fs0' = fs
    /\ nwrites' = nwrites + 1

----------------------------------------------------------------------------
(* main.  A call of fetch_all ends in one of the three ways SpecFetch shows: *)
(* it returns the items, raises requests.HTTPError, or raises                *)
(* requests.ConnectionError; which one is the remote side's choice.          *)

Crash(type, at) ==
    /\ pc' = "crashed"
    /\ exit_code' = 1
    /\ err' = [type |-> type, at |-> at]

\* lines 211-218: the list collection is fetched
MainFetchLists ==
    /\ pc = "fetch_lists"
    /\ \E ls \in SeqsUpTo(MainLists, MaxLists) : source_lists' = ls
    /\ li' = 1
    /\ total_migrated' = 0
    /\ pc' = "list"
    /\ UNCHANGED <<skip_completed, tasks, ti, migrated_count, exit_code, err, fileVars>>

\* lines 214-216: except requests.HTTPError: return 2
MainFetchListsHTTPError ==
    /\ pc = "fetch_lists"
    /\ pc' = "done"
    /\ exit_code' = 2
    /\ err' = [type |-> "HTTPError", at |-> "lists"]
    /\ UNCHANGED <<skip_completed, source_lists, li, tasks, ti, migrated_count,
                   total_migrated, fileVars>>

\* line 213: an exception that is no HTTPError leaves main
MainFetchListsConnectionError ==
    /\ pc = "fetch_lists"
    /\ Crash("ConnectionError", "lists")
    /\ UNCHANGED <<skip_completed, source_lists, li, tasks, ti, migrated_count,
                   total_migrated, fileVars>>

\* lines 219-237: the next list's tasks are fetched
MainFetchTasks ==
    /\ pc = "list"
    /\ li <= Len(source_lists)
    /\ \E ts \in SeqsUpTo(MainTasks, MaxTasks) : tasks' = ts
    /\ ti' = 1
    /\ migrated_count' = 0
    /\ pc' = "task"
    /\ UNCHANGED <<skip_completed, source_lists, li, total_migrated, exit_code, err, fileVars>>

\* lines 232-234: except requests.HTTPError: continue
MainFetchTasksHTTPError ==
    /\ pc = "list"
    /\ li <= Len(source_lists)
    /\ err' = [type |-> "HTTPError", at |-> "tasks"]
    /\ li' = li + 1
    /\ UNCHANGED <<pc, skip_completed, source_lists, tasks, ti, migrated_count,
                   total_migrated, exit_code, fileVars>>

\* line 231: an exception that is no HTTPError leaves main
MainFetchTasksConnectionError ==
    /\ pc = "list"
    /\ li <= Len(source_lists)
    /\ Crash("ConnectionError", "tasks")
    /\ UNCHANGED <<skip_completed, source_lists, li, tasks, ti, migrated_count,
                   total_migrated, fileVars>>

\* lines 238-242: the task is skipped
MainSkipTask ==
    /\ pc = "task"
    /\ ti <= Len(tasks)
    /\ ShouldSkip(skip_completed, tasks[ti])
    /\ ti' = ti + 1
    /\ UNCHANGED <<pc, skip_completed, source_lists, li, tasks, migrated_count,
                   total_migrated, exit_code, err, fileVars>>

\* lines 238-249: the task is exported
MainWriteTask ==
    /\ pc = "task"
    /\ ti <= Len(tasks)
    /\ ~ShouldSkip(skip_completed, tasks[ti])
    /\ LET list_folder == CleanListName(source_lists[li].displayName)
           filename_base == safe_filename(TitleOf(tasks[ti]))
           payload == Payload(tasks[ti])
           r == write_task_file(fs, list_folder, filename_base, payload)
       IN  /\ fs' = r.fs
           /\ fs0' = fs
           /\ call' = [folder |-> list_folder, base |-> filename_base,
                       task_json |-> payload, path |-> r.path, result |-> "ok"]
    /\ nwrites' = nwrites + 1
    /\ migrated_count' = migrated_count + 1
    /\ ti' = ti + 1
    /\ UNCHANGED <<pc, skip_completed, source_lists, li, tasks, total_migrated,
                   exit_code, err>>

\* line 247: write_task_file raises OSError (lines 83, 94), which nothing catches
MainWriteTaskOSError ==
    /\ pc = "task"
    /\ ti <= Len(tasks)
    /\ ~ShouldSkip(skip_completed, tasks[ti])
    /\ Crash("OSError", "write")
    /\ UNCHANGED <<skip_completed, source_lists, li, tasks, ti, migrated_count,
                   total_migrated, fileVars>>

\* lines 251-252: the list is done
MainEndList ==
    /\ pc = "task"
    /\ ti > Len(tasks)
    /\ total_migrated' = total_migrated + migrated_count
    /\ li' = li + 1
    /\ pc' = "list"
    /\ UNCHANGED <<skip_completed, source_lists, tasks, ti, migrated_count,
                   exit_code, err, fileVars>>

\* lines 254-255: return 0
MainFinish ==
    /\ pc = "list"
    /\ li > Len(source_lists)
    /\ pc' = "done"
    /\ exit_code' = 0
    /\ UNCHANGED <<skip_completed, source_lists, li, tasks, ti, migrated_count,
                   total_migrated, err, fileVars>>

----------------------------------------------------------------------------
(* Specifications *)

InitFetch == InitFetchVars /\ IdleSanVars /\ IdleFileVars /\ IdleMainVars
NextFetch ==
    \/ FetchPage /\ UNCHANGED <<sanVars, fileVars, mainVars>>
    \/ FetchHTTPError /\ UNCHANGED <<sanVars, fileVars, mainVars>>
    \/ FetchConnectionError /\ UNCHANGED <<sanVars, fileVars, mainVars>>
    \/ FetchReturn /\ UNCHANGED <<sanVars, fileVars, mainVars>>
SpecFetch == InitFetch /\ [][NextFetch]_vars

InitSanitize == IdleFetchVars /\ InitSanVars /\ IdleFileVars /\ IdleMainVars
NextSanitize == Sanitize /\ UNCHANGED <<fetchVars, fileVars, mainVars>>
SpecSanitize == InitSanitize /\ [][NextSanitize]_vars

InitWrite == IdleFetchVars /\ IdleSanVars /\ InitFileVars /\ IdleMainVars
NextWrite ==
    \/ WriteCall /\ UNCHANGED <<fetchVars, sanVars, mainVars>>
    \/ WriteOSError /\ UNCHANGED <<fetchVars, sanVars, mainVars>>
SpecWrite == InitWrite /\ [][NextWrite]_vars

InitMain == IdleFetchVars /\ IdleSanVars /\ InitMainFileVars /\ InitMainVars
NextMain ==
    \/ MainFetchLists /\ UNCHANGED <<fetchVars, sanVars>>
    \/ MainFetchListsHTTPError /\ UNCHANGED <<fetchVars, sanVars>>
    \/ MainFetchListsConnectionError /\ UNCHANGED <<fetchVars, sanVars>>
    \/ MainFetchTasks /\ UNCHANGED <<fetchVars, sanVars>>
    \/ MainFetchTasksHTTPError /\ UNCHANGED <<fetchVars, sanVars>>
    \/ MainFetchTasksConnectionError /\ UNCHANGED <<fetchVars, sanVars>>
    \/ MainSkipTask /\ UNCHANGED <<fetchVars, sanVars>>
    \/ MainWriteTask /\ UNCHANGED <<fetchVars, sanVars>>
    \/ MainWriteTaskOSError /\ UNCHANGED <<fetchVars, sanVars>>
    \/ MainEndList /\ UNCHANGED <<fetchVars, sanVars>>
    \/ MainFinish /\ UNCHANGED <<fetchVars, sanVars>>
SpecMain == InitMain /\ [][NextMain]_vars

----------------------------------------------------------------------------
(* Properties of fetch_all (SpecFetch) *)

\* The chain of pages that starts at URL u, read off the server: its length N if
\* every page on it has an array value, every page but the last carries a
\* non-empty cursor to a page the server holds, and the last carries none
\* (absent or null); 0 if there is no such chain of at most `fuel` pages.
RECURSIVE ChainLen(_, _)
ChainLen(u, fuel) ==
    IF fuel = 0 \/ ~KnownUrl(u) THEN 0
    ELSE LET b == server[PageIndex(u)]
             c == b[CursorKey]
         IN  IF b["value"].t # "list" THEN 0
             ELSE IF c.t \in {"absent", "null"} THEN 1
             ELSE IF c.v = "" THEN 0
             ELSE LET r == ChainLen(c.v, fuel - 1) IN IF r = 0 THEN 0 ELSE r + 1

RECURSIVE ChainUrl(_, _)
ChainUrl(u, i) == IF i = 1 THEN u ELSE ChainUrl(server[PageIndex(u)][CursorKey].v, i - 1)

ChainUrls(u, n) == [i \in 1..n |-> ChainUrl(u, i)]

RECURSIVE ChainItems(_, _)
ChainItems(u, n) ==
    IF n = 0 THEN <<>>
    ELSE server[PageIndex(u)]["value"].v
         \o (IF n = 1 THEN <<>> ELSE ChainItems(server[PageIndex(u)][CursorKey].v, n - 1))

IsPrefix(s, t) == Len(s) <= Len(t) /\ s = SubSeq(t, 1, Len(s))

\* C1: when the pages reachable from the caller's URL form a chain of N >= 1
\* pages and no request fails, fetch_all returns the concatenation of the
\* pages' value arrays in page and item order, after exactly N requests: the
\* first to the caller's URL, each later one to the previous page's cursor.
\* While it runs, its requests and items are prefixes of those.
C1_PaginationComplete ==
    LET n == ChainLen(url, MaxPages)
    IN  (n > 0 /\ fpc # "raised") =>
            /\ IsPrefix(requests, ChainUrls(url, n))
            /\ items = ChainItems(url, Len(requests))
            /\ (fpc = "returned" =>
                    /\ requests = ChainUrls(url, n)
                    /\ items = ChainItems(url, n))

\* A chain of three pages was fetched to its end.
C1_Witness ==
    /\ fpc = "returned"
    /\ ChainLen(url, MaxPages) = 3
    /\ Len(requests) = 3
    /\ items = <<"a", "b", "c", "a", "b">>

\* C9: a page answered with success whose value is missing or is not an array
\* raises nothing and appends nothing: the items collected so far are kept and
\* next_link becomes the cursor that page carried; when that is none, the only
\* step left is the return of the items.
C9_MalformedPageIsEmpty ==
    [][ /\ (/\ Len(requests') = Len(requests) + 1
            /\ resp'.status = "ok"
            /\ resp'.body["value"].t # "list")
           => /\ fpc' = "loop"
              /\ ferr' = "none"
              /\ items' = items
              /\ next_link' = (IF resp'.body[CursorKey].t = "absent"
                               THEN JNull ELSE resp'.body[CursorKey])
        /\ (fpc = "loop" /\ ~Truthy(next_link) /\ fpc' # fpc)
           => (fpc' = "returned" /\ items' = items /\ requests' = requests)
      ]_vars

\* After a page with items, a page without a value field was read; the items
\* are kept and the fetch goes on with that page's cursor.
C9_Witness ==
    /\ fpc = "loop"
    /\ resp.status = "ok"
    /\ resp.body["value"].t = "absent"
    /\ items = <<"a", "b">>
    /\ Truthy(next_link)
    /\ Len(requests) = 2

----------------------------------------------------------------------------
(* Properties of safe_filename (SpecSanitize) *)

\* C6: sanitizing a sanitized title changes nothing.
C6_Idempotent == spc = "done" => twice = once

----------------------------------------------------------------------------
(* Properties of write_task_file (SpecWrite) *)

CallDone == call.result # "none"
CallOk == call.result = "ok"
InSeq(tok, s) == \E i \in 1..Len(s) : s[i] = tok

\* The first index >= from at which tok stands in text, or 0
IndexFrom(text, tok, from) ==
    LET hits == {i \in from..Len(text) : text[i] = tok}
    IN  IF hits = {} THEN 0 ELSE CHOOSE i \in hits : \A j \in hits : i <= j

\* The tokens between the opening delimiter and the next delimiter
MetaBlock(text) ==
    LET j == IndexFrom(text, Delim, 2)
    IN  IF j = 0 THEN SubSeq(text, 2, Len(text)) ELSE SubSeq(text, 2, j - 1)

\* The tokens inside the fenced code block, if the file has one
FencedBlock(text) ==
    LET a == IndexFrom(text, FenceOpen, 1)
        b == IF a = 0 THEN 0 ELSE IndexFrom(text, FenceClose, a + 1)
    IN  IF a = 0 \/ b = 0 THEN <<>> ELSE SubSeq(text, a + 1, b - 1)

\* C2: a call leaves every file that existed before it in place with the same
\* content, and the path a returning call wrote did not exist before the call.
C2_NeverOverwrites ==
    CallDone =>
        /\ \A p \in DOMAIN fs0 : p \in DOMAIN fs /\ fs[p] = fs0[p]
        /\ CallOk => (call.path \notin DOMAIN fs0 /\ call.path \in DOMAIN fs)

\* A second run wrote title T into a folder that already held T.md and T_1.md.
C2_Witness ==
    /\ CallOk
    /\ call.base = TitleT
    /\ DOMAIN fs0 = OldFiles
    /\ \A p \in OldFiles : fs[p] = OldText
    /\ Cardinality(DOMAIN fs) = 3

FileName(base, k) == IF k = 0 THEN base \o Ext ELSE base \o <<"_">> \o Digits(k) \o Ext
Taken(f, folder, base) == {k \in 0..Cardinality(DOMAIN f) : <<folder, FileName(base, k)>> \in DOMAIN f}
FirstFree(f, folder, base) ==
    CHOOSE k \in 0..Cardinality(DOMAIN f) :
        /\ k \notin Taken(f, folder, base)
        /\ \A j \in 0..(k - 1) : j \in Taken(f, folder, base)
InFolder(f, folder) == {p \in DOMAIN f : p[1] = folder}

\* C3: a returning call wrote base.md if that was free and otherwise base_k.md
\* for the smallest k >= 1 whose path was free.  Folder M starts empty and only
\* title T is written to it: its files are T.md, T_1.md, T_2.md, ... in write order.
C3_SmallestFreeSuffix ==
    CallOk =>
        /\ call.path = <<call.folder, FileName(call.base, FirstFree(fs0, call.folder, call.base))>>
        /\ call.folder = ListM =>
              LET n == Cardinality(InFolder(fs, ListM))
              IN  /\ InFolder(fs, ListM) = {<<ListM, FileName(TitleT, k)>> : k \in 0..(n - 1)}
                  /\ call.path = <<ListM, FileName(TitleT, n - 1)>>

\* The third task titled T was written to the empty folder as T_2.md.
C3_Witness ==
    /\ CallOk
    /\ call.path = <<ListM, <<"T", "_", "2", ".", "m", "d">> >>
    /\ InFolder(fs, ListM) = { <<ListM, <<"T", ".", "m", "d">> >>,
                               <<ListM, <<"T", "_", "1", ".", "m", "d">> >>,
                               <<ListM, <<"T", "_", "2", ".", "m", "d">> >> }

\* C8 as stated: the checklist key is in no block that serializes the
\* projection fields, neither the metadata block nor the fenced block.
C8_ChecklistInNoBlock ==
    CallOk =>
        LET text == fs[call.path]
        IN  /\ ~InSeq(ChecklistKey, MetaBlock(text))
            /\ ~(InSeq(ChecklistKey, FencedBlock(text)) /\ InSeq("title", FencedBlock(text)))

\* C8 as amended: the metadata block holds the projection fields and never the
\* checklist key, in the structured and in the fallback serialization, with
\* and without a body; the fenced block of a task without body text holds the
\* whole record, the checklist key included.
C8_ChecklistNotInMetadata ==
    CallOk =>
        LET text == fs[call.path]
        IN  /\ ~InSeq(ChecklistKey, MetaBlock(text))
            /\ InSeq("title", MetaBlock(text))
            /\ InSeq(FenceOpen, text) =>
                  (InSeq(ChecklistKey, FencedBlock(text)) /\ InSeq("title", FencedBlock(text)))

\* A task without body text, with checklist items, was written through the
\* structured serialization.
C8_Witness ==
    /\ CallOk
    /\ GetKey(call.task_json, ChecklistKey) = OneItem
    /\ GetKey(call.task_json, "body") = JNull
    /\ InSeq("## Subtasks", fs[call.path])
    /\ InSeq(FenceOpen, fs[call.path])

\* C10: the file starts with a delimiter line, and the next delimiter stands
\* on a line of its own after the serialized projection.
C10_MetadataWellFormed ==
    CallOk =>
        LET text == fs[call.path]
            j == IndexFrom(text, Delim, 2)
        IN  /\ text[1] = Delim /\ text[2] = NL
            /\ j > 3
            /\ text[j - 1] = NL /\ text[j + 1] = NL
            /\ InSeq("title", SubSeq(text, 3, j - 1))

----------------------------------------------------------------------------
(* Properties of main (SpecMain) *)

\* C4: an exception raised by the task fetch of a list does not end the run.
C4_TaskFetchFailureIsolated == err.at = "tasks" => pc # "crashed"

\* C5: an exception raised while a task is written does not end the run.
C5_WriteFailureIsolated == err.at = "write" => pc # "crashed"

\* C7: a step of the task loop that does not end in an exception leaves the
\* files and the count alone when the filter is on and the status is
\* "completed", and otherwise adds one file and one to the count.
C7_SkipCompletedFilter ==
    [][ (pc = "task" /\ ti <= Len(tasks) /\ pc' # "crashed") =>
            /\ ti' = ti + 1
            /\ IF skip_completed /\ tasks[ti].status = JStr("completed")
               THEN fs' = fs /\ migrated_count' = migrated_count
               ELSE /\ migrated_count' = migrated_count + 1
                    /\ Cardinality(DOMAIN fs') = Cardinality(DOMAIN fs) + 1
                    /\ \A p \in DOMAIN fs : p \in DOMAIN fs'
      ]_vars

\* With the filter on, the first list's task was exported and counted, and
\* the second list's completed task was passed over.
C7_Witness ==
    /\ skip_completed
    /\ pc = "task"
    /\ li = 2
    /\ total_migrated = 1
    /\ Len(tasks) = 1
    /\ tasks[1].status = JStr("completed")
    /\ ti = 2
    /\ migrated_count = 0
    /\ Cardinality(DOMAIN fs) = 1

====
